---- MODULE Spec2Model ----
(***************************************************************************)
(* HealthSync: the five tables of the migration, their row level security  *)
(* policies, and the page handlers that issue store requests.              *)
(*                                                                         *)
(* The store is the variable db: one sequence of rows per table, in        *)
(* insertion order.  Every request is evaluated for a principal uid        *)
(* (auth.uid()) against the policies of the migration, the way PostgreSQL  *)
(* evaluates them: a command is permitted on a row when some policy that   *)
(* applies to the command accepts the row, sub-selects inside a policy see *)
(* only the rows the same principal may select, and a table command with   *)
(* no policy is denied.  resp is the last request and its response.        *)
(***************************************************************************)
EXTENDS Integers, Sequences, FiniteSets, TLC

\* ------------------------------------------------------------------ bounds
MaxUsers == 3
MaxLogs == 5
MaxMsgs == 1
MaxThread == 3
MaxCheckups == 1

\* --------------------------------------------------------- program constants
Doctor1 == 1
Patient1 == 2
Today == 4
DashboardLimit == 7

Roles == {"doctor", "patient"}
Statuses == {"upcoming", "completed", "cancelled"}
Terminal == {"completed", "cancelled"}
Tables == {"users", "health_logs", "doctor_patient_links", "messages", "checkups"}
Commands == {"SELECT", "INSERT", "UPDATE", "DELETE"}
Sessions == {"s1", "s2"}

\* db          the store: table name -> rows in insertion order
\* resp        the last request and the store's response to it
\* creator     message id -> the principal whose request created the row
\* checkupsPage  the DoctorCheckups page of each browser session
VARIABLES db, resp, creator, checkupsPage, chat, dashboard

vars == <<db, resp, creator, checkupsPage, chat, dashboard>>

\* ------------------------------------------------------------ sequence helpers
Range(s) == {s[i] : i \in 1..Len(s)}

RECURSIVE FilterSeq(_, _)
FilterSeq(s, keep) ==
  IF s = <<>> THEN <<>>
  ELSE IF Head(s) \in keep THEN <<Head(s)>> \o FilterSeq(Tail(s), keep)
       ELSE FilterSeq(Tail(s), keep)

\* gen_random_uuid(): an id no row of the table has (the least one, so that
\* ids stay in a finite range when rows are deleted)
NewId(s) ==
  CHOOSE i \in 1..(Len(s) + 1) :
    /\ \A k \in 1..Len(s) : s[k].id # i
    /\ \A j \in 1..(i - 1) : \E k \in 1..Len(s) : s[k].id = j

Patch(r, p) == [f \in DOMAIN r |-> IF f \in DOMAIN p THEN p[f] ELSE r[f]]

RoleOf(d, uid) ==
  IF \E u \in Range(d.users) : u.id = uid
  THEN (CHOOSE u \in Range(d.users) : u.id = uid).role
  ELSE "none"

Doctors(d) == {u.id : u \in {x \in Range(d.users) : x.role = "doctor"}}
Patients(d) == {u.id : u \in {x \in Range(d.users) : x.role = "patient"}}
Ids(d) == {u.id : u \in Range(d.users)}

\* a users SELECT policy that lets every authenticated principal read every row
AnyoneCanReadProfiles(uid, r) == TRUE

\* ------------------------------------------------------------------ policies
\* "Users can read own profile" ON users FOR SELECT
UsersCanReadOwnProfile(uid, r) == uid = r.id

\* "Users can update own profile" ON users FOR UPDATE
UsersCanUpdateOwnProfile(uid, r) == uid = r.id

\* "Doctors can view their patient links" ON doctor_patient_links FOR SELECT
DoctorsCanViewTheirPatientLinks(uid, r) == r.doctor_id = uid

\* "Patients can view their doctor links" ON doctor_patient_links FOR SELECT
PatientsCanViewTheirDoctorLinks(uid, r) == r.patient_id = uid

\* rows of users and doctor_patient_links a sub-select run for uid sees
VisibleUsers(d, uid) == {u \in Range(d.users) : UsersCanReadOwnProfile(uid, u)}

VisibleLinks(d, uid) ==
  {l \in Range(d.doctor_patient_links) :
     DoctorsCanViewTheirPatientLinks(uid, l) \/ PatientsCanViewTheirDoctorLinks(uid, l)}

\* a policy that compares auth.uid() with the row's own id
OwnHealthLogsById(uid, r) == uid = r.id

\* "Patients can manage own health logs" ON health_logs FOR ALL
PatientsCanManageOwnHealthLogs(uid, r) == uid = r.user_id

\* a policy that joins the doctor to any link of the patient, not to the
\* doctor's own link
AnyDoctorOfLinkedPatient(d, uid, r) ==
  \E dpl \in Range(d.doctor_patient_links) : \E u \in VisibleUsers(d, uid) :
     /\ u.id = uid
     /\ dpl.patient_id = r.user_id
     /\ u.role = "doctor"

\* "Doctors can view assigned patients' health logs" ON health_logs FOR SELECT
DoctorsCanViewAssignedPatientsHealthLogs(d, uid, r) ==
  \E dpl \in VisibleLinks(d, uid) : \E u \in VisibleUsers(d, uid) :
     /\ u.id = dpl.doctor_id
     /\ dpl.patient_id = r.user_id
     /\ dpl.doctor_id = uid
     /\ u.role = "doctor"

\* a policy that shows a message to its sender only
SenderCanViewMessages(uid, r) == r.sender_id = uid

\* "Users can view messages they sent or received" ON messages FOR SELECT
UsersCanViewMessages(uid, r) == r.sender_id = uid \/ r.receiver_id = uid

\* a policy that accepts a message of which the principal is either party
PartyCanSendMessages(uid, r) == r.sender_id = uid \/ r.receiver_id = uid

\* "Users can send messages" ON messages FOR INSERT WITH CHECK
UsersCanSendMessages(uid, r) == r.sender_id = uid

\* the checkups policy without its sub-select on the role
AnyPartyCanManageCheckups(d, uid, r) == r.doctor_id = uid \/ r.patient_id = uid

\* "Doctors can manage checkups for their patients" ON checkups FOR ALL
DoctorsCanManageCheckups(d, uid, r) ==
  \/ r.doctor_id = uid
  \/ /\ r.patient_id = uid
     /\ \E u \in VisibleUsers(d, uid) : u.id = uid /\ u.role = "patient"

\* USING: may uid run cmd on the existing row r of tbl
Using(d, uid, tbl, cmd, r) ==
  CASE tbl = "users" ->
         \/ cmd = "SELECT" /\ UsersCanReadOwnProfile(uid, r)
         \/ cmd = "UPDATE" /\ UsersCanUpdateOwnProfile(uid, r)
    [] tbl = "health_logs" ->
         \/ PatientsCanManageOwnHealthLogs(uid, r)
         \/ cmd = "SELECT" /\ DoctorsCanViewAssignedPatientsHealthLogs(d, uid, r)
    [] tbl = "doctor_patient_links" ->
         \/ cmd = "SELECT" /\ DoctorsCanViewTheirPatientLinks(uid, r)
         \/ cmd = "SELECT" /\ PatientsCanViewTheirDoctorLinks(uid, r)
    [] tbl = "messages" ->
         cmd = "SELECT" /\ UsersCanViewMessages(uid, r)
    [] tbl = "checkups" ->
         DoctorsCanManageCheckups(d, uid, r)

\* WITH CHECK with a policy that lets a doctor insert links naming themselves
SelfServiceWithCheck(d, uid, tbl, cmd, r) ==
  CASE tbl = "users" ->
         cmd = "UPDATE" /\ UsersCanUpdateOwnProfile(uid, r)
    [] tbl = "health_logs" ->
         PatientsCanManageOwnHealthLogs(uid, r)
    [] tbl = "doctor_patient_links" ->
         cmd = "INSERT" /\ DoctorsCanViewTheirPatientLinks(uid, r)
    [] tbl = "messages" ->
         cmd = "INSERT" /\ UsersCanSendMessages(uid, r)
    [] tbl = "checkups" ->
         DoctorsCanManageCheckups(d, uid, r)

\* WITH CHECK: may uid leave the new row r in tbl by cmd; a policy without
\* WITH CHECK checks the new row with its USING expression
WithCheck(d, uid, tbl, cmd, r) ==
  CASE tbl = "users" ->
         cmd = "UPDATE" /\ UsersCanUpdateOwnProfile(uid, r)
    [] tbl = "health_logs" ->
         PatientsCanManageOwnHealthLogs(uid, r)
    [] tbl = "doctor_patient_links" ->
         FALSE
    [] tbl = "messages" ->
         cmd = "INSERT" /\ UsersCanSendMessages(uid, r)
    [] tbl = "checkups" ->
         DoctorsCanManageCheckups(d, uid, r)

\* ------------------------------------------------------------ table constraints
UserExists(d, uid) == \E u \in Range(d.users) : u.id = uid

\* NOT NULL, CHECK, REFERENCES and UNIQUE of the CREATE TABLE statements, for
\* row r as the row with id r.id of tbl
Constraints(d, tbl, r) ==
  CASE tbl = "users" ->
         r.role \in Roles
    [] tbl = "health_logs" ->
         /\ UserExists(d, r.user_id)
         /\ r.sleep_hours \in -999..999
    [] tbl = "doctor_patient_links" ->
         /\ UserExists(d, r.doctor_id) /\ UserExists(d, r.patient_id)
         /\ \A l \in Range(d.doctor_patient_links) :
              l.id # r.id => ~(l.doctor_id = r.doctor_id /\ l.patient_id = r.patient_id)
    [] tbl = "messages" ->
         UserExists(d, r.sender_id) /\ UserExists(d, r.receiver_id)
    [] tbl = "checkups" ->
         /\ UserExists(d, r.doctor_id) /\ UserExists(d, r.patient_id)
         /\ r.status \in Statuses

\* ------------------------------------------------------------ store requests
\* a SELECT on a table without row level security
SelectAll(d, uid, tbl) == d[tbl]

\* rows of tbl a SELECT run for uid returns, in table order
Select(d, uid, tbl) ==
  FilterSeq(d[tbl], {r \in Range(d[tbl]) : Using(d, uid, tbl, "SELECT", r)})

\* the row an INSERT of row (a record without id) stores
\* now() of an INSERT into messages: later than the timestamp of every stored
\* message
Now(d) == Len(d.messages) + 1

\* the DEFAULT columns of a new row: id, and for a message its timestamp
WithId(d, tbl, row) ==
  IF tbl = "messages" THEN [id |-> NewId(d[tbl]), timestamp |-> Now(d)] @@ row
  ELSE [id |-> NewId(d[tbl])] @@ row

\* INSERT by uid: the new row passes a WITH CHECK and the table's constraints
InsertOk(d, uid, tbl, row) ==
  /\ WithCheck(d, uid, tbl, "INSERT", WithId(d, tbl, row))
  /\ Constraints(d, tbl, WithId(d, tbl, row))

Insert(d, tbl, row) == [d EXCEPT ![tbl] = Append(@, WithId(d, tbl, row))]

\* targets chosen by the SELECT policies alone
ReadableTargets(d, uid, tbl, cmd, key) ==
  {r \in Range(d[tbl]) : r.id = key /\ Using(d, uid, tbl, "SELECT", r)}

\* rows an UPDATE or DELETE ... WHERE id = key run for uid acts on: the WHERE
\* clause reads the row, so the SELECT policies apply next to the command's
Targets(d, uid, tbl, cmd, key) ==
  {r \in Range(d[tbl]) :
     r.id = key /\ Using(d, uid, tbl, "SELECT", r) /\ Using(d, uid, tbl, cmd, r)}

UpdateOk(d, uid, tbl, key, patch) ==
  \A r \in Targets(d, uid, tbl, "UPDATE", key) :
     /\ WithCheck(d, uid, tbl, "UPDATE", Patch(r, patch))
     /\ Using(d, uid, tbl, "SELECT", Patch(r, patch))
     /\ Constraints(d, tbl, Patch(r, patch))

Update(d, uid, tbl, key, patch) ==
  [d EXCEPT ![tbl] =
     [i \in 1..Len(@) |->
        IF @[i] \in Targets(d, uid, tbl, "UPDATE", key) THEN Patch(@[i], patch) ELSE @[i]]]

Delete(d, uid, tbl, key) ==
  [d EXCEPT ![tbl] = FilterSeq(@, Range(@) \ Targets(d, uid, tbl, "DELETE", key))]

\* ORDER BY key: every order of rows the sort may return (rows with equal keys
\* come in either order); desc = TRUE for descending
RECURSIVE OrderBy(_, _, _)
OrderBy(S, key, desc) ==
  IF S = {} THEN {<<>>}
  ELSE UNION {{<<r>> \o t : t \in OrderBy(S \ {r}, key, desc)} :
               r \in {x \in S : \A y \in S :
                         IF desc THEN y[key] <= x[key] ELSE x[key] <= y[key]}}

Limit(s, n) == IF Len(s) <= n THEN s ELSE SubSeq(s, 1, n)

\* ------------------------------------------------------------ responses
NoRow == [id |-> 0]

\* by: auth.uid() of the request; op: the handler; key: the id the request
\* names; arg: the row acted on (for INSERT the row offered) and new: the row
\* it would become; status: error of the response; n: rows written; rows: data
Resp(by, op, tbl, cmd, key, arg, new, status, n, rows) ==
  [by |-> by, op |-> op, tbl |-> tbl, cmd |-> cmd, key |-> key, arg |-> arg,
   new |-> new, status |-> status, n |-> n, rows |-> rows]

\* ------------------------------------------------------------ initial state
DemoUsers ==
  << [id |-> Doctor1, role |-> "doctor", full_name |-> "n1"],
     [id |-> Patient1, role |-> "patient", full_name |-> "n1"] >>

DemoLinks == << [id |-> 1, doctor_id |-> Doctor1, patient_id |-> Patient1] >>

DemoHealthLogs ==
  << [id |-> 1, user_id |-> Patient1, date |-> Today - 1, steps |-> 8500,
      water_ml |-> 2000, heart_rate |-> 72, sleep_hours |-> 75],
     [id |-> 2, user_id |-> Patient1, date |-> Today - 2, steps |-> 6200,
      water_ml |-> 1800, heart_rate |-> 68, sleep_hours |-> 80],
     [id |-> 3, user_id |-> Patient1, date |-> Today - 3, steps |-> 9100,
      water_ml |-> 2200, heart_rate |-> 75, sleep_hours |-> 65] >>

DemoCheckups ==
  << [id |-> 1, doctor_id |-> Doctor1, patient_id |-> Patient1, date |-> Today + 7,
      purpose |-> "Regular Health Checkup", status |-> "upcoming"] >>

\* the DoctorDashboard component of a session: patients the ids of the
\* patients list, selectedPatient the id of the selected one (0 for null),
\* pending the patient ids of the fetchPatientHealthLogs calls in flight
ClosedDashboard ==
  [user |-> 0, patients |-> <<>>, selectedPatient |-> 0, patientHealthLogs |-> <<>>,
   pending |-> <<>>]

ClosedPage ==
  [user |-> 0, checkups |-> <<>>, patients |-> <<>>, showCreateForm |-> FALSE,
   editingCheckup |-> NoRow]

\* a Chat or DoctorChat component: user is useAuth().user, patientId the route
\* parameter (DoctorChat), peer the doctor or patient state, pending the
\* requests in flight with what their closures captured
ClosedChat ==
  [page |-> "none", user |-> 0, patientId |-> 0, peer |-> NoRow, messages |-> <<>>,
   newMessage |-> "", loading |-> FALSE, sending |-> FALSE, pending |-> {},
   notified |-> {}]

\* doctor?.id with doctor null: the text "undefined" in the filter of the query
Undefined == 0

Pending(op, peer, row) == [op |-> op, peer |-> peer, row |-> row]

\* the postgres_changes INSERT subscription of a mounted chat: Chat filters
\* receiver_id = user.id, DoctorChat sender_id = patientId; the callback is
\* the one of the render the effect ran in, and calls that render's
\* fetchMessages (doctor is null there; patientId is the route parameter)
Subscribed(d, c, row) ==
  /\ c.page # "none"
  /\ Using(d, c.user, "messages", "SELECT", row)
  /\ IF c.page = "Chat" THEN row.receiver_id = c.user ELSE row.sender_id = c.patientId

Notified(d, ch, row) ==
  [s \in DOMAIN ch |->
     IF Subscribed(d, ch[s], row)
     THEN [ch[s] EXCEPT
             !.pending = @ \cup {Pending("fetchMessages",
                                          IF ch[s].page = "Chat" THEN Undefined
                                          ELSE ch[s].patientId, NoRow)},
             !.notified = @ \cup {row.id}]
     ELSE ch[s]]

Init ==
  /\ chat = [s \in Sessions |-> ClosedChat]
  /\ db = [users |-> DemoUsers, health_logs |-> DemoHealthLogs,
           doctor_patient_links |-> DemoLinks, messages |-> <<>>,
           checkups |-> DemoCheckups]
  /\ resp = Resp(0, "none", "none", "none", 0, NoRow, NoRow, "", 0, <<>>)
  /\ creator = <<>>
  /\ checkupsPage = [s \in Sessions |-> ClosedPage]
  /\ dashboard = [s \in Sessions |-> ClosedDashboard]

\* ------------------------------------------------------------ accounts, pairing
\* signUp(email, password, fullName, role): a new principal with the chosen role
SignUp(role) ==
  /\ Len(db.users) < MaxUsers
  /\ db' = [db EXCEPT !.users =
              Append(@, [id |-> NewId(db.users), role |-> role, full_name |-> "n1"])]
  /\ resp' = Resp(0, "signUp", "users", "INSERT", NewId(db.users), NoRow, NoRow, "", 1, <<>>)
  /\ UNCHANGED <<creator, checkupsPage, chat, dashboard>>

\* the same INSERT into a table without UNIQUE(doctor_id, patient_id)
AdminLinkAgain(doctor_id, patient_id) ==
  LET row == [doctor_id |-> doctor_id, patient_id |-> patient_id]
  IN  /\ doctor_id \in Doctors(db) /\ patient_id \in Patients(db)
      /\ Len(db.doctor_patient_links) < MaxUsers
      /\ db' = Insert(db, "doctor_patient_links", row)
      /\ resp' = Resp(0, "link", "doctor_patient_links", "INSERT", 0, row, row, "", 1, <<>>)
      /\ UNCHANGED <<creator, checkupsPage, chat, dashboard>>

\* INSERT INTO doctor_patient_links ... ON CONFLICT (doctor_id, patient_id) DO
\* NOTHING, run by the database owner, whom no policy restricts
AdminLink(doctor_id, patient_id) ==
  LET row == [doctor_id |-> doctor_id, patient_id |-> patient_id]
      fresh == Constraints(db, "doctor_patient_links", WithId(db, "doctor_patient_links", row))
  IN  /\ doctor_id \in Doctors(db) /\ patient_id \in Patients(db)
      /\ db' = IF fresh THEN Insert(db, "doctor_patient_links", row) ELSE db
      /\ resp' = Resp(0, "link", "doctor_patient_links", "INSERT", 0, row, row, "",
                      IF fresh THEN 1 ELSE 0, <<>>)
      /\ UNCHANGED <<creator, checkupsPage, chat, dashboard>>

\* ------------------------------------------------------------ health logs
\* parseInt / parseFloat of a form field: <<>> for NaN, <<n>> for the number
\* (parseFloat in tenths, the scale of decimal(3,1))
FormTexts == {"", "8500", "2000", "72", "7.5"}

ParseInt(s) ==
  CASE s = "8500" -> <<8500>> [] s = "2000" -> <<2000>> [] s = "72" -> <<72>>
    [] s = "7.5" -> <<7>> [] s = "-5" -> <<-5>> [] s = "-0.5" -> <<0>> [] OTHER -> <<>>

ParseFloat(s) ==
  CASE s = "8500" -> <<85000>> [] s = "2000" -> <<20000>> [] s = "72" -> <<720>>
    [] s = "7.5" -> <<75>> [] s = "-5" -> <<-50>> [] s = "-0.5" -> <<-5>> [] OTHER -> <<>>

\* x || 0
OrZero(x) == IF x = <<>> THEN 0 ELSE x[1]

LogDates == {Today}

LogForms ==
  { [steps |-> "8500", water_ml |-> "2000", heart_rate |-> "72", sleep_hours |-> "7.5"],
    [steps |-> "", water_ml |-> "", heart_rate |-> "", sleep_hours |-> ""] }

\* a submit that overwrites the patient's row of the same date (an upsert)
LogHealthUpsert(uid, date, formData, storeOk) ==
  LET row == [user_id |-> uid, date |-> date,
              steps |-> OrZero(ParseInt(formData.steps)),
              water_ml |-> OrZero(ParseInt(formData.water_ml)),
              heart_rate |-> OrZero(ParseInt(formData.heart_rate)),
              sleep_hours |-> OrZero(ParseFloat(formData.sleep_hours))]
      ok == storeOk /\ InsertOk(db, uid, "health_logs", row)
      same == {r \in Range(db.health_logs) : r.user_id = uid /\ r.date = date}
  IN  /\ uid \in Patients(db)
      /\ Len(db.health_logs) < MaxLogs
      /\ db' = IF ~ok THEN db
               ELSE IF same = {} THEN Insert(db, "health_logs", row)
               ELSE [db EXCEPT !.health_logs =
                       [i \in 1..Len(@) |-> IF @[i] \in same THEN Patch(@[i], row) ELSE @[i]]]
      /\ resp' = Resp(uid, "LogHealth.handleSubmit", "health_logs", "INSERT", 0,
                      WithId(db, "health_logs", row), WithId(db, "health_logs", row),
                      IF ok THEN "" ELSE "error", IF ok THEN 1 ELSE 0, <<>>)
      /\ UNCHANGED <<creator, checkupsPage, chat, dashboard>>

\* LogHealth.handleSubmit for the patient uid; storeOk = FALSE is a request
\* the store does not complete (StoreError)
LogHealthSubmit(uid, date, formData, storeOk) ==
  LET row == [user_id |-> uid, date |-> date,
              steps |-> OrZero(ParseInt(formData.steps)),
              water_ml |-> OrZero(ParseInt(formData.water_ml)),
              heart_rate |-> OrZero(ParseInt(formData.heart_rate)),
              sleep_hours |-> OrZero(ParseFloat(formData.sleep_hours))]
      ok == storeOk /\ InsertOk(db, uid, "health_logs", row)
  IN  /\ uid \in Patients(db)
      /\ Len(db.health_logs) < MaxLogs
      /\ db' = IF ok THEN Insert(db, "health_logs", row) ELSE db
      /\ resp' = Resp(uid, "LogHealth.handleSubmit", "health_logs", "INSERT", 0,
                      WithId(db, "health_logs", row), WithId(db, "health_logs", row),
                      IF ok THEN "" ELSE "error", IF ok THEN 1 ELSE 0, <<>>)
      /\ UNCHANGED <<creator, checkupsPage, chat, dashboard>>

\* .from('health_logs').select('*').eq('user_id', id).order('date', desc).limit(7)
\* run for uid: every result the store may return
HealthLogsQuery(d, uid, id) ==
  {Limit(s, DashboardLimit) :
     s \in OrderBy({r \in Range(Select(d, uid, "health_logs")) : r.user_id = id},
                   "date", TRUE)}

\* PatientDashboard.fetchHealthLogs
FetchHealthLogs(uid) ==
  /\ uid \in Patients(db)
  /\ \E rows \in HealthLogsQuery(db, uid, uid) :
       resp' = Resp(uid, "fetchHealthLogs", "health_logs", "SELECT", uid, NoRow, NoRow,
                    "", 0, rows)
  /\ UNCHANGED <<db, creator, checkupsPage, chat, dashboard>>

\* DoctorDashboard.fetchPatientHealthLogs(patientId)
FetchPatientHealthLogs(uid, patientId) ==
  /\ uid \in Doctors(db)
  /\ patientId \in Ids(db)
  /\ \E rows \in HealthLogsQuery(db, uid, patientId) :
       resp' = Resp(uid, "fetchPatientHealthLogs", "health_logs", "SELECT", patientId,
                    NoRow, NoRow, "", 0, rows)
  /\ UNCHANGED <<db, creator, checkupsPage, chat, dashboard>>

\* ------------------------------------------------------------ direct requests
\* A principal may send the store any request, not only the ones the pages
\* build; the policies are what decides it.  Rows and patches offered:
Texts == {"Hello"}

\* the first principal to sign up after the demo accounts
NewUser == Patient1 + 1

InsertRows(d, tbl) ==
  CASE tbl = "users" ->
         {[role |-> r, full_name |-> "n1"] : r \in Roles}
    [] tbl = "health_logs" ->
         {[user_id |-> u, date |-> Today, steps |-> 0, water_ml |-> 0, heart_rate |-> 0,
           sleep_hours |-> 0] : u \in Ids(d)}
    [] tbl = "doctor_patient_links" ->
         {[doctor_id |-> a, patient_id |-> b] : a \in Ids(d), b \in Ids(d)}
    [] tbl = "messages" ->
         {[sender_id |-> a, receiver_id |-> b, message |-> t] :
            a \in Ids(d), b \in Ids(d), t \in Texts}
    [] tbl = "checkups" ->
         {[doctor_id |-> a, patient_id |-> b, date |-> Today + 7,
           purpose |-> "Regular Health Checkup", status |-> "upcoming"] :
            a \in Ids(d) \cap {Doctor1, NewUser}, b \in Ids(d) \cap {Patient1, NewUser}}

Patches(d, tbl) ==
  CASE tbl = "users" ->
         {[full_name |-> "n2"]} \cup {[role |-> r] : r \in Roles}
    [] tbl = "health_logs" ->
         {[steps |-> 1]}
    [] tbl = "doctor_patient_links" ->
         {[patient_id |-> u] : u \in Ids(d)}
    [] tbl = "messages" ->
         {[message |-> "edited"], [sender_id |-> Doctor1]}
    [] tbl = "checkups" ->
         {[status |-> st] : st \in Terminal}
           \cup {[doctor_id |-> u] : u \in Ids(d) \cap {NewUser}}

MaxRows(tbl) ==
  CASE tbl = "users" -> MaxUsers [] tbl = "health_logs" -> MaxLogs
    [] tbl = "messages" -> MaxThread [] tbl = "checkups" -> MaxCheckups
    [] OTHER -> MaxUsers

\* the messages table is kept at MaxMsgs rows where threads are not the subject
MsgRoom(uid, row) == InsertOk(db, uid, "messages", row) => Len(db.messages) < MaxMsgs

RowWithId(d, tbl, key) == CHOOSE r \in Range(d[tbl]) : r.id = key

\* SELECT * FROM tbl WHERE id = key
RequestSelect(uid, tbl, key) ==
  /\ uid \in Ids(db)
  /\ \E r \in Range(db[tbl]) : r.id = key
  /\ resp' = Resp(uid, "request", tbl, "SELECT", key, RowWithId(db, tbl, key),
                  RowWithId(db, tbl, key), "", 0,
                  FilterSeq(Select(db, uid, tbl), {r \in Range(db[tbl]) : r.id = key}))
  /\ UNCHANGED <<db, creator, checkupsPage, chat, dashboard>>

\* INSERT INTO tbl VALUES (row)
RequestInsert(uid, tbl, row) ==
  LET ok == InsertOk(db, uid, tbl, row)
  IN  /\ uid \in Ids(db)
      /\ ok => Len(db[tbl]) < MaxRows(tbl)
      /\ db' = IF ok THEN Insert(db, tbl, row) ELSE db
      /\ creator' = IF ok /\ tbl = "messages" THEN Append(creator, uid) ELSE creator
      /\ resp' = Resp(uid, "request", tbl, "INSERT", 0, WithId(db, tbl, row),
                      WithId(db, tbl, row), IF ok THEN "" ELSE "error",
                      IF ok THEN 1 ELSE 0, <<>>)
      /\ chat' = IF ok /\ tbl = "messages" THEN Notified(db', chat, WithId(db, tbl, row))
                 ELSE chat
      /\ UNCHANGED <<checkupsPage, dashboard>>

\* UPDATE tbl SET patch WHERE id = key
RequestUpdate(uid, tbl, key, patch) ==
  LET ok == UpdateOk(db, uid, tbl, key, patch)
      n == IF ok THEN Cardinality(Targets(db, uid, tbl, "UPDATE", key)) ELSE 0
  IN  /\ uid \in Ids(db)
      /\ \E r \in Range(db[tbl]) : r.id = key
      /\ db' = IF ok THEN Update(db, uid, tbl, key, patch) ELSE db
      /\ resp' = Resp(uid, "request", tbl, "UPDATE", key, RowWithId(db, tbl, key),
                      Patch(RowWithId(db, tbl, key), patch),
                      IF ok THEN "" ELSE "error", n, <<>>)
      /\ UNCHANGED <<creator, checkupsPage, chat, dashboard>>

\* DELETE FROM tbl WHERE id = key
RequestDelete(uid, tbl, key) ==
  /\ uid \in Ids(db)
  /\ \E r \in Range(db[tbl]) : r.id = key
  /\ db' = Delete(db, uid, tbl, key)
  /\ resp' = Resp(uid, "request", tbl, "DELETE", key, RowWithId(db, tbl, key),
                  RowWithId(db, tbl, key), "",
                  Cardinality(Targets(db, uid, tbl, "DELETE", key)), <<>>)
  /\ UNCHANGED <<creator, checkupsPage, chat, dashboard>>

Keys(tbl) == {r.id : r \in Range(db[tbl])}

NextLogs ==
  \/ \E role \in Roles : SignUp(role)
  \/ \E d, p \in Ids(db) : AdminLink(d, p)
  \/ \E uid \in Ids(db), date \in LogDates, fd \in LogForms, ok \in BOOLEAN :
       LogHealthSubmit(uid, date, fd, ok)
  \/ \E uid \in Ids(db) : FetchHealthLogs(uid)
  \/ \E uid, pid \in Ids(db) : FetchPatientHealthLogs(uid, pid)

SpecLogs == Init /\ [][NextLogs]_vars

\* what a patient can leave in the fields of the LogHealth form: the texts
\* above, negative numbers and a text that is no number
SubmittedTexts == FormTexts \cup {"-5", "-0.5", "abc"}

SubmittedForms ==
  {[steps |-> t, water_ml |-> t, heart_rate |-> t, sleep_hours |-> t] : t \in SubmittedTexts}

NextForm ==
  \/ \E uid \in Ids(db), date \in LogDates, fd \in SubmittedForms, ok \in BOOLEAN :
       LogHealthSubmit(uid, date, fd, ok)
  \/ \E uid \in Ids(db) : FetchHealthLogs(uid)

SpecForm == Init /\ [][NextForm]_vars

\* the same alerts with the heart rate compared by >=
GetHealthAlertsFrom100(patientHealthLogs) ==
  IF Len(patientHealthLogs) = 0 THEN <<>>
  ELSE LET latest == patientHealthLogs[1]
       IN  (IF latest.heart_rate >= 100
            THEN <<[type |-> "warning", message |-> "High heart rate detected"]>> ELSE <<>>)
           \o (IF latest.sleep_hours < 60
               THEN <<[type |-> "warning", message |-> "Insufficient sleep"]>> ELSE <<>>)
           \o (IF latest.water_ml < 1500
               THEN <<[type |-> "info", message |-> "Low water intake"]>> ELSE <<>>)
           \o (IF latest.steps < 5000
               THEN <<[type |-> "info", message |-> "Low activity level"]>> ELSE <<>>)

\* DoctorDashboard.getHealthAlerts over patientHealthLogs (sleep_hours in
\* tenths)
GetHealthAlerts(patientHealthLogs) ==
  IF Len(patientHealthLogs) = 0 THEN <<>>
  ELSE LET latest == patientHealthLogs[1]
       IN  (IF latest.heart_rate > 100
            THEN <<[type |-> "warning", message |-> "High heart rate detected"]>> ELSE <<>>)
           \o (IF latest.sleep_hours < 60
               THEN <<[type |-> "warning", message |-> "Insufficient sleep"]>> ELSE <<>>)
           \o (IF latest.water_ml < 1500
               THEN <<[type |-> "info", message |-> "Low water intake"]>> ELSE <<>>)
           \o (IF latest.steps < 5000
               THEN <<[type |-> "info", message |-> "Low activity level"]>> ELSE <<>>)

\* the dashboard of doctor uid renders with the logs fetched for patientId:
\* the alerts shown for them
RenderAlerts(uid, patientId) ==
  /\ uid \in Doctors(db)
  /\ patientId \in Ids(db)
  /\ \E rows \in HealthLogsQuery(db, uid, patientId) :
       resp' = Resp(uid, "getHealthAlerts", "health_logs", "SELECT", patientId,
                    IF rows = <<>> THEN NoRow ELSE rows[1], NoRow, "",
                    Len(GetHealthAlerts(rows)), GetHealthAlerts(rows))
  /\ UNCHANGED <<db, creator, checkupsPage, chat, dashboard>>

\* logs at the thresholds of the alerts and just beyond them
AlertRows(uid) ==
  {[user_id |-> uid, date |-> Today, steps |-> st, water_ml |-> w, heart_rate |-> h,
    sleep_hours |-> sl] :
     st \in {5000, 4999}, w \in {1500, 1499}, h \in {100, 101}, sl \in {60, 59}}

NextAlerts ==
  \/ \E uid \in Patients(db) : \E row \in AlertRows(uid) :
       RequestInsert(uid, "health_logs", row)
  \/ \E uid, patientId \in Ids(db) : RenderAlerts(uid, patientId)

SpecAlerts == Init /\ [][NextAlerts]_vars

\* requests of the principals on the stored health logs
NextLogStore ==
  \/ \E role \in Roles : SignUp(role)
  \/ \E uid \in Ids(db), key \in Keys("health_logs") : RequestSelect(uid, "health_logs", key)
  \/ \E uid \in Ids(db), key \in Keys("health_logs"), patch \in Patches(db, "health_logs") :
       RequestUpdate(uid, "health_logs", key, patch)
  \/ \E uid \in Ids(db), key \in Keys("health_logs") : RequestDelete(uid, "health_logs", key)

SpecLogStore == Init /\ [][NextLogStore]_vars

\* ------------------------------------------------------------ doctor dashboard
\* fetchPatientHealthLogs calls one dashboard has in flight
MaxPending == 2

\* the patients of the links fetchPatients selects, .eq('doctor_id', user.id),
\* by id
RECURSIVE PatientIdsOfLinks(_, _)
PatientIdsOfLinks(uid, links) ==
  IF links = <<>> THEN <<>>
  ELSE IF Head(links).doctor_id = uid
       THEN <<Head(links).patient_id>> \o PatientIdsOfLinks(uid, Tail(links))
       ELSE PatientIdsOfLinks(uid, Tail(links))

\* s without its i-th element
RemoveAt(s, i) == SubSeq(s, 1, i - 1) \o SubSeq(s, i + 1, Len(s))

\* the dashboard of session s is opened by the doctor uid: the mount effect
\* runs fetchPatients, which sets the list and selects its first patient, and
\* the selectedPatient effect starts fetchPatientHealthLogs for it. The list is
\* what the page holds when the embedded patient records are returned
OpenDashboard(s, uid) ==
  LET patientList == PatientIdsOfLinks(uid, Select(db, uid, "doctor_patient_links"))
  IN  /\ uid \in Doctors(db)
      /\ dashboard[s] = ClosedDashboard
      /\ dashboard' = [dashboard EXCEPT ![s] =
            [user |-> uid, patients |-> patientList,
             selectedPatient |-> IF Len(patientList) > 0 THEN patientList[1] ELSE 0,
             patientHealthLogs |-> <<>>,
             pending |-> IF Len(patientList) > 0 THEN <<patientList[1]>> ELSE <<>>]]
      /\ resp' = Resp(uid, "fetchPatients", "doctor_patient_links", "SELECT", uid, NoRow,
                      NoRow, "", 0, <<>>)
      /\ UNCHANGED <<db, creator, checkupsPage, chat>>

\* a button of the patients list: setSelectedPatient(patient); the effect on
\* [selectedPatient] starts fetchPatientHealthLogs(selectedPatient.id)
SelectPatient(s, patientId) ==
  /\ dashboard[s].user # 0
  /\ patientId \in Range(dashboard[s].patients)
  /\ patientId # dashboard[s].selectedPatient
  /\ Len(dashboard[s].pending) < MaxPending
  /\ dashboard' = [dashboard EXCEPT ![s].selectedPatient = patientId,
                                    ![s].pending = Append(@, patientId)]
  /\ UNCHANGED <<db, resp, creator, checkupsPage, chat>>

\* the response to the i-th fetchPatientHealthLogs in flight arrives:
\* setPatientHealthLogs(data || [])
FetchPatientHealthLogsDone(s, i) ==
  LET d == dashboard[s]
  IN  /\ i \in 1..Len(d.pending)
      /\ \E rows \in HealthLogsQuery(db, d.user, d.pending[i]) :
            /\ dashboard' = [dashboard EXCEPT ![s].patientHealthLogs = rows,
                                              ![s].pending = RemoveAt(@, i)]
            /\ resp' = Resp(d.user, "fetchPatientHealthLogs", "health_logs", "SELECT",
                            d.pending[i], NoRow, NoRow, "", 0, rows)
      /\ UNCHANGED <<db, creator, checkupsPage, chat>>

\* the dashboard of a doctor with patients paired by the database owner
NextDashboard ==
  \/ SignUp("patient")
  \/ \E a \in Doctors(db), b \in Patients(db) : AdminLink(a, b)
  \/ \E s \in Sessions, uid \in Doctors(db) : OpenDashboard(s, uid)
  \/ \E s \in Sessions, patientId \in Ids(db) : SelectPatient(s, patientId)
  \/ \E s \in Sessions, i \in 1..MaxPending : FetchPatientHealthLogsDone(s, i)

SpecDashboard == Init /\ [][NextDashboard]_vars

\* ------------------------------------------------------------ checkups
\* a to-one embed users!..._fkey(...): the users row with that id when the
\* requesting principal may select it, null otherwise
Embed(d, uid, id) ==
  IF \E u \in Range(Select(d, uid, "users")) : u.id = id
  THEN CHOOSE u \in Range(Select(d, uid, "users")) : u.id = id
  ELSE NoRow

\* DoctorCheckups.fetchCheckups: .eq('doctor_id', user.id).order('date', asc)
CheckupsQuery(d, uid) ==
  OrderBy({r \in Range(Select(d, uid, "checkups")) : r.doctor_id = uid}, "date", FALSE)

\* DoctorCheckups.fetchPatients: data.map(link => link.patient)
RECURSIVE PatientsOfLinks(_, _, _)
PatientsOfLinks(d, uid, links) ==
  IF links = <<>> THEN <<>>
  ELSE IF Head(links).doctor_id = uid
       THEN <<Embed(d, uid, Head(links).patient_id)>> \o PatientsOfLinks(d, uid, Tail(links))
       ELSE PatientsOfLinks(d, uid, Tail(links))

PatientsQuery(d, uid) == PatientsOfLinks(d, uid, Select(d, uid, "doctor_patient_links"))

\* PatientDashboard.fetchUpcomingCheckups:
\* .eq('patient_id', user.id).eq('status', 'upcoming').order('date', asc)
UpcomingCheckupsQuery(d, uid) ==
  OrderBy({r \in Range(Select(d, uid, "checkups")) :
             r.patient_id = uid /\ r.status = "upcoming"}, "date", FALSE)

FetchUpcomingCheckups(uid) ==
  /\ uid \in Patients(db)
  /\ \E rows \in UpcomingCheckupsQuery(db, uid) :
       resp' = Resp(uid, "fetchUpcomingCheckups", "checkups", "SELECT", uid, NoRow, NoRow,
                    "", 0, rows)
  /\ UNCHANGED <<db, creator, checkupsPage, chat, dashboard>>

\* the DoctorCheckups page of session s is opened by the doctor uid: the mount
\* effect runs fetchCheckups and fetchPatients
OpenCheckups(s, uid) ==
  /\ uid \in Doctors(db)
  /\ \E rows \in CheckupsQuery(db, uid) :
       /\ checkupsPage' = [checkupsPage EXCEPT ![s] =
             [user |-> uid, checkups |-> rows, patients |-> PatientsQuery(db, uid),
              showCreateForm |-> FALSE, editingCheckup |-> NoRow]]
       /\ resp' = Resp(uid, "fetchCheckups", "checkups", "SELECT", uid, NoRow, NoRow,
                       "", 0, rows)
  /\ UNCHANGED <<db, creator, chat, dashboard>>

\* the form maps patients to options, patient.id and patient.full_name: with
\* a null among the patients rendering it throws and the page is gone
FormRenders(page) == \A p \in Range(page.patients) : p # NoRow

\* the Schedule Checkup button: setShowCreateForm(true)
ShowCreateForm(s) ==
  /\ checkupsPage[s].user # 0
  /\ ~checkupsPage[s].showCreateForm
  /\ checkupsPage' = [checkupsPage EXCEPT ![s] =
        IF FormRenders(@) THEN [@ EXCEPT !.showCreateForm = TRUE] ELSE ClosedPage]
  /\ UNCHANGED <<db, resp, creator, chat, dashboard>>

\* startEdit(checkup): the edit button of a row the page shows as upcoming
StartEdit(s, checkup) ==
  /\ checkupsPage[s].user # 0
  /\ checkup \in Range(checkupsPage[s].checkups)
  /\ checkup.status = "upcoming"
  /\ checkupsPage' = [checkupsPage EXCEPT ![s] =
        IF FormRenders(@) THEN [@ EXCEPT !.editingCheckup = checkup, !.showCreateForm = TRUE]
        ELSE ClosedPage]
  /\ UNCHANGED <<db, resp, creator, chat, dashboard>>

\* resetForm: the close button of the form
ResetForm(s) ==
  /\ checkupsPage[s].showCreateForm
  /\ checkupsPage' = [checkupsPage EXCEPT ![s].editingCheckup = NoRow,
                                          ![s].showCreateForm = FALSE]
  /\ UNCHANGED <<db, resp, creator, chat, dashboard>>

CheckupDates == {Today + 7}
Purposes == {"Annual Physical"}

\* values formData.patient_id can have at submit: what resetForm or startEdit
\* put there, or an option of the patient select
FormPatientIds(page) ==
  {IF page.editingCheckup = NoRow THEN 0 ELSE page.editingCheckup.patient_id}
    \cup ({p.id : p \in Range(page.patients)} \ {0})

\* DoctorCheckups.handleSubmit: create, or save the checkup being edited; on
\* success resetForm and fetchCheckups. It runs on formData as the page holds
\* it; what the browser does with the form's required fields before it calls
\* the handler is not part of the model
HandleSubmit(s, patient_id, date, purpose) ==
  LET page == checkupsPage[s]
      user == page.user
      checkupData == [doctor_id |-> user, patient_id |-> patient_id, date |-> date,
                      purpose |-> purpose, status |-> "upcoming"]
      editing == page.editingCheckup # NoRow
      key == page.editingCheckup.id
      ok == IF editing THEN UpdateOk(db, user, "checkups", key, checkupData)
            ELSE InsertOk(db, user, "checkups", checkupData)
      old == IF editing /\ key \in Keys("checkups")
             THEN RowWithId(db, "checkups", key) ELSE NoRow
  IN  /\ user # 0
      /\ page.showCreateForm
      /\ patient_id \in FormPatientIds(page)
      /\ (~editing /\ ok) => Len(db.checkups) < MaxCheckups
      /\ db' = IF ~ok THEN db
               ELSE IF editing THEN Update(db, user, "checkups", key, checkupData)
               ELSE Insert(db, "checkups", checkupData)
      /\ \E rows \in CheckupsQuery(db', user) :
            checkupsPage' = IF ok
              THEN [checkupsPage EXCEPT ![s].editingCheckup = NoRow,
                                        ![s].showCreateForm = FALSE, ![s].checkups = rows]
              ELSE checkupsPage
      /\ resp' = Resp(user, "DoctorCheckups.handleSubmit", "checkups",
                      IF editing THEN "UPDATE" ELSE "INSERT", IF editing THEN key ELSE 0,
                      old,
                      IF editing THEN (IF old = NoRow THEN NoRow ELSE Patch(old, checkupData))
                      ELSE WithId(db, "checkups", checkupData),
                      IF ok THEN "" ELSE "error",
                      IF ~ok THEN 0
                      ELSE IF editing
                           THEN Cardinality(Targets(db, user, "checkups", "UPDATE", key))
                           ELSE 1,
                      <<>>)
      /\ UNCHANGED <<creator, chat, dashboard>>

\* updateCheckupStatus(checkupId, status): a status button of a row the page
\* shows as upcoming; on success fetchCheckups
UpdateCheckupStatus(s, checkupId, status) ==
  LET page == checkupsPage[s]
      user == page.user
      ok == UpdateOk(db, user, "checkups", checkupId, [status |-> status])
      old == IF checkupId \in Keys("checkups")
             THEN RowWithId(db, "checkups", checkupId) ELSE NoRow
  IN  /\ user # 0
      /\ status \in Terminal
      /\ \E c \in Range(page.checkups) : c.id = checkupId /\ c.status = "upcoming"
      /\ db' = IF ok THEN Update(db, user, "checkups", checkupId, [status |-> status])
               ELSE db
      /\ \E rows \in CheckupsQuery(db', user) :
            checkupsPage' = IF ok THEN [checkupsPage EXCEPT ![s].checkups = rows]
                            ELSE checkupsPage
      /\ resp' = Resp(user, "updateCheckupStatus", "checkups", "UPDATE", checkupId, old,
                      IF old = NoRow THEN NoRow ELSE Patch(old, [status |-> status]),
                      IF ok THEN "" ELSE "error",
                      IF ok THEN Cardinality(Targets(db, user, "checkups", "UPDATE", checkupId))
                      ELSE 0,
                      <<>>)
      /\ UNCHANGED <<creator, chat, dashboard>>

AllCheckupRows ==
  UNION {Range(checkupsPage[s].checkups) : s \in Sessions} \cup Range(db.checkups)

\* the DoctorCheckups page in two browser sessions, of the demo doctor or of a
\* doctor who signed up and has scheduled a checkup by a request
NextCheckups ==
  \/ SignUp("doctor")
  \/ \E uid \in Doctors(db), row \in InsertRows(db, "checkups") :
       row.doctor_id = uid /\ RequestInsert(uid, "checkups", row)
  \/ \E uid \in Doctors(db), key \in Keys("checkups") : RequestDelete(uid, "checkups", key)
  \/ \E s \in Sessions, uid \in Ids(db) : OpenCheckups(s, uid)
  \/ \E s \in Sessions : ShowCreateForm(s)
  \/ \E s \in Sessions, c \in AllCheckupRows : StartEdit(s, c)
  \/ \E s \in Sessions : ResetForm(s)
  \/ \E s \in Sessions, pid \in Ids(db) \cup {0}, date \in CheckupDates, purpose \in Purposes :
       HandleSubmit(s, pid, date, purpose)
  \/ \E s \in Sessions, key \in {c.id : c \in AllCheckupRows}, st \in Terminal :
       UpdateCheckupStatus(s, key, st)

SpecCheckups == Init /\ [][NextCheckups]_vars

\* the DoctorCheckups page next to a patient who hands their checkup to
\* another doctor by a request (the policy is FOR ALL, and a patient passes it
\* on their own checkups)
NextHandover ==
  \/ SignUp("doctor")
  \/ \E uid \in Patients(db), key \in Keys("checkups") :
       \E patch \in {q \in Patches(db, "checkups") : "doctor_id" \in DOMAIN q} :
          RequestUpdate(uid, "checkups", key, patch)
  \/ \E s \in Sessions, uid \in Ids(db) : OpenCheckups(s, uid)
  \/ \E s \in Sessions, key \in {c.id : c \in AllCheckupRows}, st \in Terminal :
       UpdateCheckupStatus(s, key, st)

SpecHandover == Init /\ [][NextHandover]_vars

\* requests on checkups by any principal
NextCheckupPolicy ==
  \/ SignUp("doctor")
  \/ \E uid \in Ids(db) : FetchUpcomingCheckups(uid)
  \/ \E uid \in Ids(db), row \in InsertRows(db, "checkups") :
       RequestInsert(uid, "checkups", row)
  \/ \E uid \in Ids(db), key \in Keys("checkups") : RequestSelect(uid, "checkups", key)
  \/ \E uid \in Ids(db), key \in Keys("checkups"), patch \in Patches(db, "checkups") :
       RequestUpdate(uid, "checkups", key, patch)
  \/ \E uid \in Ids(db), key \in Keys("checkups") : RequestDelete(uid, "checkups", key)

SpecCheckupPolicy == Init /\ [][NextCheckupPolicy]_vars

\* messages from one principal to another, sent by any principal
NextMessages ==
  \/ \E role \in Roles : SignUp(role)
  \/ \E uid \in Ids(db), row \in InsertRows(db, "messages") :
       /\ row.sender_id # row.receiver_id
       /\ MsgRoom(uid, row) /\ RequestInsert(uid, "messages", row)
  \/ \E uid \in Ids(db), key \in Keys("messages") : RequestSelect(uid, "messages", key)

SpecMessages == Init /\ [][NextMessages]_vars

\* ------------------------------------------------------------ chat pages
\* String.prototype.trim on the texts typed here
ChatTexts == {" ", " Hello "}

Trim(t) == CASE t = " " -> "" [] t = " Hello " -> "Hello" [] OTHER -> t

\* a query for every message a is a party of
MessagesOf(d, uid, a, b) ==
  IF a = Undefined \/ b = Undefined THEN {[status |-> "error", rows |-> <<>>]}
  ELSE {[status |-> "", rows |-> rows] :
          rows \in OrderBy({m \in Range(Select(d, uid, "messages")) :
                              m.sender_id = a \/ m.receiver_id = a},
                           "timestamp", FALSE)}

\* fetchMessages: .or(and(sender_id.eq.a, receiver_id.eq.b), and(sender_id.eq.b,
\* receiver_id.eq.a)).order('timestamp', asc), run for uid; "undefined" in
\* place of a uuid is answered with an error
ThreadQuery(d, uid, a, b) ==
  IF a = Undefined \/ b = Undefined THEN {[status |-> "error", rows |-> <<>>]}
  ELSE {[status |-> "", rows |-> rows] :
          rows \in OrderBy({m \in Range(Select(d, uid, "messages")) :
                              \/ m.sender_id = a /\ m.receiver_id = b
                              \/ m.sender_id = b /\ m.receiver_id = a},
                           "timestamp", FALSE)}

\* .single(): the one row of the result, an error when there is none or more
\* than one
Single(rows) ==
  IF Len(rows) = 1 THEN [status |-> "", data |-> rows[1]]
  ELSE [status |-> "error", data |-> NoRow]

\* Chat mounts for a patient: fetchDoctor(), fetchMessages(), subscribe
OpenChat(s, uid) ==
  /\ chat[s].page = "none"
  /\ uid \in Patients(db)
  /\ chat' = [chat EXCEPT ![s] =
        [ClosedChat EXCEPT !.page = "Chat", !.user = uid, !.loading = TRUE,
           !.pending = {Pending("fetchPeer", Undefined, NoRow),
                        Pending("fetchMessages", Undefined, NoRow)}]]
  /\ UNCHANGED <<db, resp, creator, checkupsPage, dashboard>>

\* DoctorChat mounts for a doctor at /doctor/chat/:patientId: fetchPatient(),
\* fetchMessages(), subscribe
OpenDoctorChat(s, uid, patientId) ==
  /\ chat[s].page = "none"
  /\ uid \in Doctors(db)
  /\ chat' = [chat EXCEPT ![s] =
        [ClosedChat EXCEPT !.page = "DoctorChat", !.user = uid, !.patientId = patientId,
           !.loading = TRUE,
           !.pending = {Pending("fetchPeer", patientId, NoRow),
                        Pending("fetchMessages", patientId, NoRow)}]]
  /\ UNCHANGED <<db, resp, creator, checkupsPage, dashboard>>

\* the page is left: the effect's cleanup unsubscribes, and what is still in
\* flight finds no component
CloseChat(s) ==
  /\ chat[s].page # "none"
  /\ chat' = [chat EXCEPT ![s] = ClosedChat]
  /\ UNCHANGED <<db, resp, creator, checkupsPage, dashboard>>

\* Chat.fetchDoctor: doctor_patient_links with the doctor embedded,
\* .eq('patient_id', user.id).single(); setDoctor(data.doctor)
LinkedDoctor(d, uid) ==
  LET found == Single(FilterSeq(Select(d, uid, "doctor_patient_links"),
                                {l \in Range(d.doctor_patient_links) : l.patient_id = uid}))
  IN  IF found.status = "error" THEN found
      ELSE [status |-> "", data |-> Embed(d, uid, found.data.doctor_id)]

\* DoctorChat.fetchPatient: users .eq('id', patientId).single()
PatientRecord(d, uid, patientId) ==
  Single(FilterSeq(Select(d, uid, "users"), {u \in Range(d.users) : u.id = patientId}))

\* the response of fetchDoctor / fetchPatient arrives: the record is set; on
\* an error Chat logs it and DoctorChat navigates to the dashboard
FetchPeerDone(s) ==
  LET c == chat[s]
      found == IF c.page = "Chat" THEN LinkedDoctor(db, c.user)
               ELSE PatientRecord(db, c.user, c.patientId)
  IN  /\ \E p \in c.pending : p.op = "fetchPeer"
      /\ chat' = [chat EXCEPT ![s] =
            IF found.status = "error"
            THEN IF c.page = "Chat"
                 THEN [c EXCEPT !.pending = {p \in @ : p.op # "fetchPeer"}]
                 ELSE ClosedChat
            ELSE [c EXCEPT !.peer = found.data,
                           !.pending = {p \in @ : p.op # "fetchPeer"}]]
      /\ resp' = Resp(c.user, IF c.page = "Chat" THEN "fetchDoctor" ELSE "fetchPatient",
                      "users", "SELECT", c.patientId, NoRow, NoRow, found.status, 0,
                      IF found.data = NoRow THEN <<>> ELSE <<found.data>>)
      /\ UNCHANGED <<db, creator, checkupsPage, dashboard>>

\* the response of a fetchMessages arrives: setMessages(data) unless it is an
\* error, then setLoading(false)
FetchMessagesDone(s, p) ==
  LET c == chat[s]
  IN  /\ p \in c.pending /\ p.op = "fetchMessages"
      /\ \E got \in ThreadQuery(db, c.user, c.user, p.peer) :
            /\ chat' = [chat EXCEPT ![s] =
                  [c EXCEPT !.messages = IF got.status = "" THEN got.rows ELSE @,
                            !.loading = FALSE,
                            !.pending = @ \ {p}]]
            /\ resp' = Resp(c.user, IF c.page = "Chat" THEN "Chat.fetchMessages"
                                    ELSE "DoctorChat.fetchMessages",
                            "messages", "SELECT", p.peer,
                            NoRow, NoRow, got.status, 0, got.rows)
      /\ UNCHANGED <<db, creator, checkupsPage, dashboard>>

\* the form is rendered once loading is over and the doctor / patient is set
FormShown(c) == c.page # "none" /\ ~c.loading /\ c.peer # NoRow

\* onChange of the message input
SetNewMessage(s, t) ==
  /\ FormShown(chat[s])
  /\ chat[s].newMessage # t
  /\ chat' = [chat EXCEPT ![s].newMessage = t]
  /\ UNCHANGED <<db, resp, creator, checkupsPage, dashboard>>

\* sendMessage without the test of sending
SendMessageWhileSending(s) ==
  LET c == chat[s]
      to == IF c.page = "Chat" THEN c.peer.id ELSE c.patientId
      row == [sender_id |-> c.user, receiver_id |-> to, message |-> Trim(c.newMessage)]
      returns == Trim(c.newMessage) = "" \/ to = Undefined
  IN  /\ FormShown(c)
      /\ chat' = IF returns THEN chat
                 ELSE [chat EXCEPT ![s].sending = TRUE,
                                   ![s].pending = @ \cup {Pending("insert", to, row)}]
      /\ resp' = Resp(c.user, "sendMessage", "messages", "INSERT", 0, row, row,
                      IF returns THEN "returned" ELSE "sent", 0, <<>>)
      /\ UNCHANGED <<db, creator, checkupsPage, dashboard>>

\* sendMessage up to its await: return on an empty text, a missing peer or a
\* send in flight; otherwise setSending(true) and the insert is sent
SendMessage(s) ==
  LET c == chat[s]
      to == IF c.page = "Chat" THEN c.peer.id ELSE c.patientId
      row == [sender_id |-> c.user, receiver_id |-> to, message |-> Trim(c.newMessage)]
      returns == Trim(c.newMessage) = "" \/ to = Undefined \/ c.sending
  IN  /\ FormShown(c)
      /\ chat' = IF returns THEN chat
                 ELSE [chat EXCEPT ![s].sending = TRUE,
                                   ![s].pending = @ \cup {Pending("insert", to, row)}]
      /\ resp' = Resp(c.user, "sendMessage", "messages", "INSERT", 0, row, row,
                      IF returns THEN "returned" ELSE "sent", 0, <<>>)
      /\ UNCHANGED <<db, creator, checkupsPage, dashboard>>

\* the response of the insert arrives: on success setNewMessage('') and
\* fetchMessages() of the render that sent; on an error the toast; then
\* setSending(false)
InsertDone(s, p) ==
  LET c == chat[s]
      ok == InsertOk(db, c.user, "messages", p.row)
      new == WithId(db, "messages", p.row)
      done == [c EXCEPT !.sending = FALSE,
                        !.newMessage = IF ok THEN "" ELSE @,
                        !.pending = (@ \ {p}) \cup
                           (IF ok THEN {Pending("fetchMessages", p.peer, NoRow)} ELSE {})]
  IN  /\ p \in c.pending /\ p.op = "insert"
      /\ ok => Len(db.messages) < MaxMsgs
      /\ db' = IF ok THEN Insert(db, "messages", p.row) ELSE db
      /\ creator' = IF ok THEN Append(creator, c.user) ELSE creator
      /\ chat' = IF ok THEN Notified(db', [chat EXCEPT ![s] = done], new)
                 ELSE [chat EXCEPT ![s] = done]
      /\ resp' = Resp(c.user, "sendMessage", "messages", "INSERT", 0, new, new,
                      IF ok THEN "" ELSE "error", IF ok THEN 1 ELSE 0, <<>>)
      /\ UNCHANGED <<checkupsPage, dashboard>>

AllPending == UNION {chat[s].pending : s \in Sessions}

\* the chat pages of the demo principals in two browser sessions, and messages
\* they send by requests
NextChat ==
  \/ \E uid \in Ids(db), row \in InsertRows(db, "messages") :
       row.sender_id = uid /\ MsgRoom(uid, row) /\ RequestInsert(uid, "messages", row)
  \/ \E s \in Sessions, uid \in Ids(db) : OpenChat(s, uid)
  \/ \E s \in Sessions, uid \in Ids(db), patientId \in Ids(db) : OpenDoctorChat(s, uid, patientId)
  \/ \E s \in Sessions : CloseChat(s)
  \/ \E s \in Sessions : FetchPeerDone(s)
  \/ \E s \in Sessions, p \in AllPending : FetchMessagesDone(s, p)
  \/ \E s \in Sessions, t \in ChatTexts : SetNewMessage(s, t)
  \/ \E s \in Sessions : SendMessage(s)
  \/ \E s \in Sessions, p \in AllPending : InsertDone(s, p)

SpecChat == Init /\ [][NextChat]_vars

\* threads of up to MaxThread messages between the first doctor, the demo
\* patient and one more doctor, read by the chat pages in one browser session
ThreadParties == {Doctor1, Patient1, NewUser}

NextThread ==
  \/ SignUp("doctor")
  \/ \E uid \in Ids(db), row \in InsertRows(db, "messages") :
       /\ row.sender_id = uid /\ row.receiver_id # uid
       /\ {row.sender_id, row.receiver_id} \subseteq ThreadParties
       /\ Doctor1 \in {row.sender_id, row.receiver_id}
       /\ RequestInsert(uid, "messages", row)
  \/ \E uid \in Ids(db) : OpenChat("s1", uid)
  \/ \E uid \in Ids(db), patientId \in Ids(db) : OpenDoctorChat("s1", uid, patientId)
  \/ CloseChat("s1")
  \/ FetchPeerDone("s1")
  \/ \E p \in AllPending : FetchMessagesDone("s1", p)

SpecThread == Init /\ [][NextThread]_vars

\* requests on users by any principal
NextUsers ==
  \/ \E role \in Roles : SignUp(role)
  \/ \E uid \in Ids(db), row \in InsertRows(db, "users") : RequestInsert(uid, "users", row)
  \/ \E uid \in Ids(db), key \in Keys("users") : RequestSelect(uid, "users", key)
  \/ \E uid \in Ids(db), key \in Keys("users"), patch \in Patches(db, "users") :
       RequestUpdate(uid, "users", key, patch)
  \/ \E uid \in Ids(db), key \in Keys("users") : RequestDelete(uid, "users", key)

SpecUsers == Init /\ [][NextUsers]_vars

\* decide(principal, operation, resource) of the access table: the rules listed
\* for a table and command, as conditions on the principal and the row
ListedRule(d, p, tbl, cmd, r) ==
  CASE tbl = "users" ->
         cmd \in {"SELECT", "UPDATE"} /\ p = r.id
    [] tbl = "health_logs" ->
         \/ p = r.user_id
         \/ /\ cmd = "SELECT"
            /\ RoleOf(d, p) = "doctor"
            /\ \E l \in Range(d.doctor_patient_links) :
                  l.doctor_id = p /\ l.patient_id = r.user_id
    [] tbl = "doctor_patient_links" ->
         cmd = "SELECT" /\ (p = r.doctor_id \/ p = r.patient_id)
    [] tbl = "messages" ->
         \/ cmd = "SELECT" /\ (p = r.sender_id \/ p = r.receiver_id)
         \/ cmd = "INSERT" /\ p = r.sender_id
    [] tbl = "checkups" ->
         \/ p = r.doctor_id
         \/ p = r.patient_id /\ RoleOf(d, p) = "patient"

\* Scenario C: patient X sends "Hello" to doctor Y
HelloRow == [sender_id |-> Patient1, receiver_id |-> Doctor1, message |-> "Hello"]

\* the requests the closed default is about, run against the store: every
\* request on any table, by any principal, that no rule of the access table
\* lists; sign-ups and the one message give them third parties and rows
NextStore ==
  \/ \E role \in Roles : SignUp(role)
  \/ MsgRoom(Patient1, HelloRow) /\ RequestInsert(Patient1, "messages", HelloRow)
  \/ \E uid \in Ids(db), tbl \in Tables : \E row \in InsertRows(db, tbl) :
       /\ ~ListedRule(db, uid, tbl, "INSERT", row)
       /\ RequestInsert(uid, tbl, row)
  \/ \E uid \in Ids(db), tbl \in Tables : \E key \in Keys(tbl) :
       /\ ~ListedRule(db, uid, tbl, "SELECT", RowWithId(db, tbl, key))
       /\ RequestSelect(uid, tbl, key)
  \/ \E uid \in Ids(db), tbl \in Tables : \E key \in Keys(tbl), patch \in Patches(db, tbl) :
       /\ ~ListedRule(db, uid, tbl, "UPDATE", RowWithId(db, tbl, key))
       /\ RequestUpdate(uid, tbl, key, patch)
  \/ \E uid \in Ids(db), tbl \in Tables : \E key \in Keys(tbl) :
       /\ ~ListedRule(db, uid, tbl, "DELETE", RowWithId(db, tbl, key))
       /\ RequestDelete(uid, tbl, key)

SpecStore == Init /\ [][NextStore]_vars

\* ============================================================== claims
LinkExists(d, doctor_id, patient_id) ==
  \E l \in Range(d.doctor_patient_links) :
     l.doctor_id = doctor_id /\ l.patient_id = patient_id

LogsOf(d, uid) == {r \in Range(d.health_logs) : r.user_id = uid}

Min(a, b) == IF a <= b THEN a ELSE b

\* C1 (pairing gate): a doctor D may read a health log of patient P exactly
\* when a link with doctor_id = D and patient_id = P exists: the policies
\* accept the row exactly then, and fetchPatientHealthLogs run by D for P
\* returns P's rows (up to the limit) when the link exists and nothing when
\* it does not.
C1_PairingGate ==
  /\ \A D \in Doctors(db) : \A P \in Patients(db) : \A L \in LogsOf(db, P) :
        Using(db, D, "health_logs", "SELECT", L) <=> LinkExists(db, D, P)
  /\ (resp.op = "fetchPatientHealthLogs" /\ resp.key \in Patients(db)) =>
        IF LinkExists(db, resp.by, resp.key)
        THEN /\ Range(resp.rows) \subseteq LogsOf(db, resp.key)
             /\ Len(resp.rows) = Min(Cardinality(LogsOf(db, resp.key)), DashboardLimit)
             /\ Cardinality(Range(resp.rows)) = Len(resp.rows)
        ELSE resp.rows = <<>>

\* a paired doctor has read the patient's history, the row the patient added
\* included, while another doctor is not paired with that patient
C1_Witness ==
  /\ resp.op = "fetchPatientHealthLogs"
  /\ LinkExists(db, resp.by, resp.key)
  /\ Len(resp.rows) > Len(DemoHealthLogs)
  /\ \E Z \in Doctors(db) : ~LinkExists(db, Z, resp.key)

\* C8 (ownership): a patient may read every health log whose user_id is the
\* patient's id, with or without a pairing link: the policies accept the row
\* and fetchHealthLogs returns the patient's rows (up to the limit).
C8_Ownership ==
  /\ \A P \in Patients(db) : \A L \in LogsOf(db, P) :
        Using(db, P, "health_logs", "SELECT", L)
  /\ resp.op = "fetchHealthLogs" =>
        /\ Range(resp.rows) \subseteq LogsOf(db, resp.by)
        /\ Len(resp.rows) = Min(Cardinality(LogsOf(db, resp.by)), DashboardLimit)
        /\ Cardinality(Range(resp.rows)) = Len(resp.rows)

\* a patient no doctor is paired with has read their own rows
C8_Witness ==
  /\ resp.op = "fetchHealthLogs"
  /\ resp.rows # <<>>
  /\ \A l \in Range(db.doctor_patient_links) : l.patient_id # resp.by

\* C9 (append-only health log): a LogHealth submit the store accepts adds
\* exactly one row, with an id no stored row has, and leaves every stored row
\* as it was, also when the patient already has a row of that date.
C9_AppendOnly ==
  [][(resp'.op = "LogHealth.handleSubmit" /\ resp'.status = "") =>
       /\ Len(db'.health_logs) = Len(db.health_logs) + 1
       /\ SubSeq(db'.health_logs, 1, Len(db.health_logs)) = db.health_logs
       /\ \A r \in Range(db.health_logs) : r.id # db'.health_logs[Len(db'.health_logs)].id
       /\ Cardinality(LogsOf(db', resp'.by)) = Cardinality(LogsOf(db, resp'.by)) + 1]_vars

\* two submits of one patient for one date have both been stored
C9_Witness ==
  /\ resp.op = "LogHealth.handleSubmit" /\ resp.status = ""
  /\ \E a, b \in LogsOf(db, resp.by) :
        /\ a.id # b.id /\ a.date = b.date
        /\ a.id > Len(DemoHealthLogs) /\ b.id > Len(DemoHealthLogs)

\* C4 (no sender forgery): an INSERT of a message whose sender_id is not the
\* requesting principal is answered with an error and stores nothing, and
\* every stored message has the sender_id of the principal that created it.
C4_NoSenderForgery ==
  /\ \A m \in Range(db.messages) : m.id \in DOMAIN creator /\ creator[m.id] = m.sender_id
  /\ (resp.tbl = "messages" /\ resp.cmd = "INSERT" /\ resp.arg.sender_id # resp.by) =>
        /\ resp.status = "error" /\ resp.n = 0
        /\ \A m \in Range(db.messages) : m.id # resp.arg.id

\* a forged insert was refused while the store holds a message
C4_Witness ==
  /\ resp.tbl = "messages" /\ resp.cmd = "INSERT"
  /\ resp.arg.sender_id # resp.by /\ resp.arg.receiver_id = resp.by
  /\ resp.status = "error"
  /\ db.messages # <<>>

\* C5 (message symmetry): a stored message is readable by its sender and by
\* its receiver and by no other principal, whatever the role and the links
\* of that principal.
C5_MessageSymmetry ==
  /\ \A m \in Range(db.messages) : \A X \in Ids(db) :
        Using(db, X, "messages", "SELECT", m) <=> X \in {m.sender_id, m.receiver_id}
  /\ (resp.tbl = "messages" /\ resp.cmd = "SELECT") =>
        resp.rows = IF resp.by \in {resp.arg.sender_id, resp.arg.receiver_id}
                    THEN <<resp.arg>> ELSE <<>>

\* a doctor paired with the sender asked for a message to somebody else and
\* got nothing
C5_Witness ==
  /\ resp.tbl = "messages" /\ resp.cmd = "SELECT"
  /\ resp.by \notin {resp.arg.sender_id, resp.arg.receiver_id}
  /\ LinkExists(db, resp.by, resp.arg.sender_id)
  /\ resp.rows = <<>>

CheckupRule(d, p, c) ==
  \/ p = c.doctor_id
  \/ p = c.patient_id /\ RoleOf(d, p) = "patient"

StatusChanges ==
  {<<c.id, c.status, n.status, c.doctor_id>> :
     <<c, n>> \in {x \in Range(db.checkups) \X Range(db'.checkups) :
                    x[1].id = x[2].id /\ x[1].status # x[2].status}}

\* C2 (checkup state monotonicity): once a checkup's status is completed or
\* cancelled, no updateCheckupStatus call, from any session and whatever list
\* that session displays, changes the status.
C2_TerminalStatusStays ==
  [][resp'.op = "updateCheckupStatus" =>
       \A ch \in StatusChanges : ch[2] \notin Terminal]_vars

\* C3 (status only moves forward): over create, edit via the form and
\* updateCheckupStatus, the only status changes are upcoming -> completed and
\* upcoming -> cancelled; saving an edit never moves a checkup back to upcoming.
C3_StatusOnlyMovesForward ==
  [][\A ch \in StatusChanges : ch[2] = "upcoming" /\ ch[3] \in Terminal]_vars

\* C6 (checkup access rule): for every principal p, command and checkup c the
\* decision is Allow exactly when p = c.doctor_id, or p = c.patient_id and p
\* has role patient: the policy accepts exactly those rows, a read returns the
\* row exactly then, an insert or delete is applied exactly then, and an
\* update is applied exactly when the rule holds of the row before and after.
C6_CheckupAccessRule ==
  /\ \A p \in Ids(db) : \A c \in Range(db.checkups) \cup InsertRows(db, "checkups") :
        \A cmd \in Commands :
          /\ Using(db, p, "checkups", cmd, c) <=> CheckupRule(db, p, c)
          /\ WithCheck(db, p, "checkups", cmd, c) <=> CheckupRule(db, p, c)
  /\ (resp.op = "request" /\ resp.tbl = "checkups") =>
        CASE resp.cmd = "SELECT" ->
               IF CheckupRule(db, resp.by, resp.arg) THEN resp.rows = <<resp.arg>>
               ELSE resp.rows = <<>>
          [] resp.cmd = "INSERT" ->
               /\ (resp.status = "" /\ resp.n = 1) <=> CheckupRule(db, resp.by, resp.arg)
               /\ (resp.status = "error" /\ resp.n = 0) <=> ~CheckupRule(db, resp.by, resp.arg)
          [] resp.cmd = "UPDATE" ->
               /\ resp.n = 1 <=>
                    CheckupRule(db, resp.by, resp.arg) /\ CheckupRule(db, resp.by, resp.new)
               /\ resp.n = 0 => RowWithId(db, "checkups", resp.key) = resp.arg
          [] resp.cmd = "DELETE" ->
               /\ resp.n = 1 <=> CheckupRule(db, resp.by, resp.arg)
               /\ resp.n = 0 => RowWithId(db, "checkups", resp.key) = resp.arg
  /\ resp.op = "fetchUpcomingCheckups" =>
        \A c \in Range(resp.rows) : CheckupRule(db, resp.by, c)

\* a doctor named as patient_id of another doctor's checkup has asked to
\* update it, and the row is as it was
C6_Witness ==
  /\ resp.op = "request" /\ resp.tbl = "checkups" /\ resp.cmd = "UPDATE"
  /\ RoleOf(db, resp.by) = "doctor"
  /\ resp.arg.patient_id = resp.by /\ resp.arg.doctor_id # resp.by
  /\ resp.n = 0
  /\ resp.arg \in Range(db.checkups)

\* C7 (status changes only by the checkup's doctor): no operation issued by
\* the named patient, or by any principal other than the checkup's doctor_id,
\* changes a checkup's status.
C7_StatusChangedOnlyByDoctor ==
  [][\A ch \in StatusChanges : resp'.by = ch[4]]_vars

\* C10 (default deny): a request that satisfies none of the listed access
\* rules is denied, whatever the principal, table and command: it returns no
\* row, writes no row and leaves every table as it was.
C10_DefaultDeny ==
  [][(resp'.op = "request"
        /\ ~ListedRule(db, resp'.by, resp'.tbl, resp'.cmd, resp'.arg)) =>
       (db' = db /\ resp'.rows = <<>> /\ resp'.n = 0)]_vars

\* the sender of a stored message has asked to update or delete it, and the
\* message is as it was
C10_Witness ==
  /\ resp.op = "request" /\ resp.tbl = "messages" /\ resp.cmd \in {"UPDATE", "DELETE"}
  /\ resp.arg.sender_id = resp.by
  /\ resp.n = 0
  /\ resp.arg \in Range(db.messages)

\* C11 (role immutability): a principal's role is fixed at creation: no
\* operation of a doctor or patient, the update of one's own user record
\* included, changes the role of an existing principal.
C11_RoleImmutable ==
  [][\A u \in Range(db.users) : \A v \in Range(db'.users) :
       u.id = v.id => u.role = v.role]_vars

\* ------------------------------------------------------------ chat claims
FetchPeerPending(c) == \E p \in c.pending : p.op = "fetchPeer"

\* C12 (Scenario C reachability): when a PairingLink(Y, X) exists, patient X's
\* chat session, once its fetchDoctor has answered, has Y as its doctor (the
\* first step of the scenario: without it X's send returns before any insert)
C12_ChatResolvesDoctor ==
  \A s \in Sessions : \A l \in Range(db.doctor_patient_links) :
    (/\ chat[s].page = "Chat"
     /\ chat[s].user = l.patient_id
     /\ ~FetchPeerPending(chat[s]))
    => chat[s].peer.id = l.doctor_id

\* C13 (pairing registry lookups): whenever PairingLink(D, P) exists, the
\* patients query run by D contains P's record, DoctorChat.fetchPatient of D
\* for P answers with P's record, and fetchDoctor of P answers with D's record
C13_LookupsReturnCounterpart ==
  \A l \in Range(db.doctor_patient_links) :
    /\ \E p \in Range(PatientsQuery(db, l.doctor_id)) : p.id = l.patient_id
    /\ (resp.op = "fetchPatient" /\ resp.by = l.doctor_id /\ resp.key = l.patient_id)
         => resp.status = "" /\ \E p \in Range(resp.rows) : p.id = l.patient_id
    /\ (resp.op = "fetchDoctor" /\ resp.by = l.patient_id)
         => resp.status = "" /\ \E p \in Range(resp.rows) : p.id = l.doctor_id

\* C16 (send validation): a sendMessage whose text is empty after trimming is
\* answered with an error and leaves the store as it was, and every message a
\* sendMessage stores has a non-empty, trimmed text
C16_SendValidation ==
  [][resp'.op = "sendMessage" =>
       /\ resp'.arg.message = "" => resp'.status = "error" /\ db' = db
       /\ resp'.status = "" =>
            LET m == db'.messages[Len(db'.messages)]
            IN  m.message # "" /\ Trim(m.message) = m.message]_vars

\* the stored messages between a and b
Between(d, a, b) ==
  {m \in Range(d.messages) : \/ m.sender_id = a /\ m.receiver_id = b
                             \/ m.sender_id = b /\ m.receiver_id = a}

FetchedMessages == resp.op \in {"Chat.fetchMessages", "DoctorChat.fetchMessages"}

C18_MessagesImmutable ==
  [][\A m \in Range(db.messages) : m \in Range(db'.messages)]_vars

\* the receiver of a stored message, and a principal who is no party of it,
\* can ask to update or delete it: here one of them has, and it is as it was
C18_Witness ==
  /\ resp.op = "request" /\ resp.tbl = "messages" /\ resp.cmd \in {"UPDATE", "DELETE"}
  /\ resp.by # resp.arg.sender_id
  /\ resp.arg \in Range(db.messages)
  /\ \E u \in Ids(db) : u \notin {resp.arg.sender_id, resp.arg.receiver_id}

\* the chat of session c is the chat with the sender of m
ChatWith(d, c, m) ==
  IF c.page = "Chat" THEN LinkExists(d, m.sender_id, c.user)
  ELSE m.sender_id = c.patientId

\* C19 (near-real-time delivery): a message addressed to R that was inserted
\* while R's chat with its sender was open and subscribed is in R's displayed
\* thread once the fetches of that chat have completed, in a patient's Chat
\* and in a doctor's DoctorChat.
C19_Delivery ==
  \A s \in Sessions : \A m \in Range(db.messages) :
    (/\ chat[s].page # "none"
     /\ m.id \in chat[s].notified
     /\ m.receiver_id = chat[s].user
     /\ ChatWith(db, chat[s], m)
     /\ chat[s].pending = {})
    => m \in Range(chat[s].messages)

\* ------------------------------------------------------------ history claims
\* C14 (Scenario A): after patient X has appended a health log dated today, a
\* history read by a doctor paired with X returns that row, the last one X
\* appended, as its first row, whatever X's history held before.
C14_NewRowFirst ==
  (resp.op = "fetchPatientHealthLogs" /\ LinkExists(db, resp.by, resp.key)) =>
     \A r \in LogsOf(db, resp.key) :
        (r.date = Today /\ \A q \in LogsOf(db, resp.key) : q.id <= r.id)
        => resp.rows # <<>> /\ resp.rows[1] = r

\* ------------------------------------------------------------ read claims
\* the rows of the store the policies do not let X select, as <<table, id>>
Hidden(d, X) ==
  UNION {{<<tbl, r.id>> : r \in {q \in Range(d[tbl]) : ~Using(d, X, tbl, "SELECT", q)}} :
           tbl \in Tables}

\* the principals a row refers to
Refs(tbl, r) ==
  CASE tbl = "health_logs" -> {r.user_id}
    [] tbl = "doctor_patient_links" -> {r.doctor_id, r.patient_id}
    [] tbl = "messages" -> {r.sender_id, r.receiver_id}
    [] tbl = "checkups" -> {r.doctor_id, r.patient_id}
    [] OTHER -> {}

\* the store as far as X is permitted to read it: every row X may not select
\* is absent, except the principal records that rows X may select refer to,
\* and of those nothing but the id is kept
ReadableStore(d, X) ==
  LET referred == UNION {UNION {Refs(t, q) : q \in {r \in Range(d[t]) :
                                                       <<t, r.id>> \notin Hidden(d, X)}} :
                           t \in Tables}
      kept(tbl) == {r \in Range(d[tbl]) :
                      \/ <<tbl, r.id>> \notin Hidden(d, X)
                      \/ tbl = "users" /\ r.id \in referred}
      blank(r) == IF <<"users", r.id>> \in Hidden(d, X)
                  THEN [id |-> r.id, role |-> "patient", full_name |-> ""] ELSE r
  IN  [tbl \in Tables |->
         LET rows == FilterSeq(d[tbl], kept(tbl))
         IN  IF tbl = "users" THEN [i \in 1..Len(rows) |-> blank(rows[i])] ELSE rows]

\* a store whose rows satisfy the constraints of their tables
Consistent(d) == \A tbl \in Tables : \A r \in Range(d[tbl]) : Constraints(d, tbl, r)

\* every read X can issue: a select on each table and the queries of the pages
Reads(d, X) ==
  [select   |-> [tbl \in Tables |-> Select(d, X, tbl)],
   logs     |-> [id \in 1..(MaxUsers + 1) |-> HealthLogsQuery(d, X, id)],
   thread   |-> [id \in 1..(MaxUsers + 1) |-> ThreadQuery(d, X, X, id)],
   record   |-> [id \in 1..(MaxUsers + 1) |-> PatientRecord(d, X, id)],
   doctor   |-> LinkedDoctor(d, X),
   patients |-> PatientsQuery(d, X),
   checkups |-> CheckupsQuery(d, X),
   upcoming |-> UpcomingCheckupsQuery(d, X)]

\* C15 (existence is not leaked by reads): for every principal X, every read
\* issued by X returns on the store what it returns on the store reduced to
\* the rows X is permitted to read.  Two stores that differ only in rows X is
\* not permitted to read reduce to the same store, so every read of X returns
\* the same result in both.
C15_ReadsDoNotLeakExistence ==
  \A X \in Ids(db) :
     /\ Consistent(ReadableStore(db, X))
     /\ Reads(ReadableStore(db, X), X) = Reads(db, X)

\* a doctor paired with nobody, while the store holds a link, health logs, a
\* checkup and a message that are not theirs
C15_Witness ==
  \E X \in Doctors(db) :
     /\ \A tbl \in Tables \ {"users"} : Select(db, X, tbl) = <<>>
     /\ \A tbl \in Tables : \E r \in Range(db[tbl]) : <<tbl, r.id>> \in Hidden(db, X)
     /\ \E P \in Patients(db) : P # X /\ Select(db, P, "health_logs") # <<>>

\* ------------------------------------------------------------ pairing claims
SamePair(l, k) == l.doctor_id = k.doctor_id /\ l.patient_id = k.patient_id

OneLinkPerPair(d) ==
  \A i, j \in 1..Len(d.doctor_patient_links) :
     SamePair(d.doctor_patient_links[i], d.doctor_patient_links[j]) => i = j

\* C20 (pairing uniqueness, idempotent link): the registry holds at most one
\* link per (doctor_id, patient_id) before and after every step, and a link of
\* a pair that is already linked reports no error and leaves the registry as
\* it was, so that linking a pair twice leaves what linking it once leaves.
C20_UniqueIdempotentLink ==
  [][/\ OneLinkPerPair(db) /\ OneLinkPerPair(db')
     /\ (resp'.op = "link" /\ LinkExists(db, resp'.arg.doctor_id, resp'.arg.patient_id))
          => /\ db'.doctor_patient_links = db.doctor_patient_links
             /\ resp'.status = "" /\ resp'.n = 0
     /\ (resp'.op = "link"
          /\ ~LinkExists(db, resp'.arg.doctor_id, resp'.arg.patient_id))
          => /\ LinkExists(db', resp'.arg.doctor_id, resp'.arg.patient_id)
             /\ Len(db'.doctor_patient_links) = Len(db.doctor_patient_links) + 1]_vars

\* a pair that a link had added to the registry has been linked again
C20_Witness ==
  /\ resp.op = "link" /\ resp.n = 0
  /\ \E l \in Range(db.doctor_patient_links) :
        /\ SamePair(l, resp.arg)
        /\ l \notin Range(DemoLinks)

\* C21 (pairing links are administrative): no request of a doctor or patient
\* adds a link, changes one or removes one: the registry is the same after
\* every step the principals take.
C21_LinksAdministrative ==
  [][db'.doctor_patient_links = db.doctor_patient_links]_vars

\* a doctor has asked to insert a link of themselves with a patient they are
\* not paired with, and the doctor of a link has asked to change or delete it
C21_Witness ==
  /\ resp.op = "request" /\ resp.tbl = "doctor_patient_links"
  /\ resp.by = resp.arg.doctor_id /\ resp.by \in Doctors(db)
  /\ \/ /\ resp.cmd = "INSERT"
        /\ resp.arg.patient_id \in Patients(db)
        /\ ~LinkExists(db, resp.by, resp.arg.patient_id)
     \/ /\ resp.cmd \in {"UPDATE", "DELETE"}
        /\ resp.arg \in Range(db.doctor_patient_links)

\* ------------------------------------------------------------ health log claims
\* C22 (health metrics are non-negative): every stored health log has steps,
\* water_ml, heart_rate and sleep_hours of at least 0, whatever the patient
\* left in the fields of the form.
C22_MetricsNonNegative ==
  \A r \in Range(db.health_logs) :
     r.steps >= 0 /\ r.water_ml >= 0 /\ r.heart_rate >= 0 /\ r.sleep_hours >= 0

\* C23 (health logs are never updated or deleted): no step of the patient, of
\* a paired doctor or of another principal changes a field of a stored health
\* log or removes the row: every stored row is in the table, as it was, after
\* the step.
C23_LogsNeverChange ==
  [][\A r \in Range(db.health_logs) : r \in Range(db'.health_logs)]_vars

\* C24 (derived alerting): for the first of the fetched logs, getHealthAlerts
\* returns a warning exactly when heart_rate > 100, another exactly when
\* sleep_hours < 6, an info exactly when water_ml < 1500 and another exactly
\* when steps < 5000, each once, and nothing else; it returns no alert when
\* there is no log, and the store is as it was.
C24_DerivedAlerts ==
  [][resp'.op = "getHealthAlerts" =>
       /\ db' = db
       /\ resp'.arg = NoRow => resp'.rows = <<>>
       /\ resp'.arg # NoRow =>
            LET latest == resp'.arg
                hr == latest.heart_rate > 100
                sl == latest.sleep_hours < 60
                wa == latest.water_ml < 1500
                st == latest.steps < 5000
                n(b) == IF b THEN 1 ELSE 0
                of(type) == {i \in 1..Len(resp'.rows) : resp'.rows[i].type = type}
                shown(msg) == \E i \in 1..Len(resp'.rows) : resp'.rows[i].message = msg
            IN  /\ Cardinality(of("warning")) = n(hr) + n(sl)
                /\ Cardinality(of("info")) = n(wa) + n(st)
                /\ Len(resp'.rows) = n(hr) + n(sl) + n(wa) + n(st)
                /\ shown("High heart rate detected") <=> hr
                /\ shown("Insufficient sleep") <=> sl
                /\ shown("Low water intake") <=> wa
                /\ shown("Low activity level") <=> st]_vars

\* the alerts of a log at all four thresholds have been computed (none), and
\* the store holds a log beyond them
C24_Witness ==
  /\ resp.op = "getHealthAlerts" /\ resp.arg # NoRow
  /\ resp.arg.heart_rate = 100 /\ resp.arg.sleep_hours = 60
  /\ resp.arg.water_ml = 1500 /\ resp.arg.steps = 5000
  /\ resp.rows = <<>>
  /\ \E r \in Range(db.health_logs) : r.heart_rate > 100 /\ r.sleep_hours < 60

\* ------------------------------------------------------------ failure claims
\* C25 (mutation failures are reported): when the store answers a save of the
\* checkups page with an error none of the success effects happen (the page is
\* as it was), and an update the policies do not let the doctor make on a
\* stored checkup leaves the store as it was and is answered as a failure.
C25_FailuresReported ==
  [][resp'.op \in {"updateCheckupStatus", "DoctorCheckups.handleSubmit"} =>
       /\ resp'.status = "error" => checkupsPage' = checkupsPage /\ db' = db
       /\ (/\ resp'.cmd = "UPDATE"
           /\ resp'.arg \in Range(db.checkups)
           /\ ~Using(db, resp'.by, "checkups", "UPDATE", resp'.arg))
          => db' = db /\ resp'.status = "error"]_vars

C27_RoleTyping ==
  /\ \A c \in Range(db.checkups) :
       c.doctor_id \in Doctors(db) /\ c.patient_id \in Patients(db)
  /\ \A l \in Range(db.health_logs) : l.user_id \in Patients(db)

C30_InitialLoad ==
  \A s \in Sessions : \A l \in Range(db.doctor_patient_links) :
    (/\ chat[s].page = "Chat"
     /\ chat[s].user = l.patient_id
     /\ chat[s].pending = {}
     /\ chat[s].notified = {}
     /\ Between(db, l.patient_id, l.doctor_id) # {}
     /\ \A m \in Between(db, l.patient_id, l.doctor_id) : m.sender_id = l.doctor_id)
    => /\ Range(chat[s].messages) = Between(db, l.patient_id, l.doctor_id)
       /\ Len(chat[s].messages) = Cardinality(Between(db, l.patient_id, l.doctor_id))

==============================================================================
